---------------------------- MODULE Spec2Model ----------------------------
(***************************************************************************)
(* Model of the multi-agent orchestration core of the backend:             *)
(*   src/src/routes/revolutionary_relay.py  (sessions, panel and chain     *)
(*                                           workers, polling, stop)       *)
(*   src/src/routes/pipelines.py            (pairs-run and chain-run)      *)
(*   src/src/routes/conference_system.py    (start, continue, synthesize)  *)
(*                                                                         *)
(* Conventions.                                                            *)
(*  - A Python str is a sequence of tokens; whitespace characters that a   *)
(*    conversion (str.strip) can touch are tokens of their own.            *)
(*  - A Python dict is a function on the set of its keys, so a missing key *)
(*    is a key outside DOMAIN and d.get(k, default) is PyGet(d, k, dflt).  *)
(*  - A JSON number is a record [k, n]: k = "int" stands for n, k =        *)
(*    "float" for n + 0.5, k = "null" for JSON null.                       *)
(*  - Timestamps are abstracted to the token "ts"; None is "None".         *)
(*  - The 20-entry agent registry is scaled to its first 2*NumPairs        *)
(*    entries (the panel's 10 pairs to NumPairs pairs).                    *)
(*  - The text of a caught exception, str(e), is the token "<exc>".        *)
(*  - A route is an operator giving its HTTP response from the store and   *)
(*    the request (X_response, or the route's name for a read-only route)  *)
(*    and an action giving its effect on the store.                        *)
(*  - The blueprints share no state (each has its own module globals),     *)
(*    so a behaviour exercises one of them, drawn in Init.                 *)
(*  - The 10-entry conference registry is scaled to its first              *)
(*    NumConfAgents entries.                                               *)
(***************************************************************************)
EXTENDS Integers, Sequences, FiniteSets, TLC

\* ------------------------------------------------------------------ bounds
NumPairs == 2
MaxAgentsReq == 3
MaxChainAgents == 3
MaxPairsReq == 2
MaxRoundsReq == 2
NumConfAgents == 2
MaxMessages == 3

\* -------------------------------------------------------- program constants
DefaultMaxAgents == 20

\* pairs-run: rounds when the body gives none, and the cap on pairs and threads
DefaultRounds == 3

PoolCap == 10

\* the characters of a trace the aggregator's message keeps, pipelines.py:26
SummaryClip == 900

\* conference rounds when the body gives none, conference_system.py:85
DefaultDurationRounds == 3

VARIABLES
    service,          \* which blueprint this behaviour sends traffic to
    active_sessions,  \* revolutionary_relay.active_sessions: id -> session dict
    worker,           \* id -> the worker thread's position and locals
    calls,            \* id -> log of outbound model calls of the session's worker
    stop_requested,   \* id -> a stop-session request has succeeded for the id
    stop_results,     \* id -> results recorded when a running session was first
                      \*       stopped, -1 before that
    refused,          \* a start request was answered 400
    OPENROUTER_API_KEY, \* pipelines.OPENROUTER_API_KEY, read once at import
    pipe,             \* the frame of the pipelines request being handled
    pipe_calls,       \* log of the outbound calls call_llm made for it
    active_conferences, \* conference_system.active_conferences: id -> conference dict
    handler,          \* the frames of the continue requests being handled
    conf_hist         \* id -> what was asked of the conference so far

relay_vars == <<active_sessions, worker, calls, stop_requested, stop_results, refused>>

pipe_vars == <<OPENROUTER_API_KEY, pipe, pipe_calls>>

conf_vars == <<active_conferences, handler, conf_hist>>

vars == <<service, active_sessions, worker, calls, stop_requested, stop_results, refused,
          OPENROUTER_API_KEY, pipe, pipe_calls, active_conferences, handler, conf_hist>>

\* ------------------------------------------------------------------ python
PyGet(d, k, dflt) == IF k \in DOMAIN d THEN d[k] ELSE dflt

PyPut(d, k, v) == [x \in DOMAIN d \cup {k} |-> IF x = k THEN v ELSE d[x]]

PyInt(n) == [k |-> "int", n |-> n]

PyFloat(n) == [k |-> "float", n |-> n]

PyNull == [k |-> "null", n |-> 0]

\* a < b on numbers; comparing None with a number raises TypeError (NumOk)
NumOk(a) == a.k \in {"int", "float"}

NumLess(a, b) ==
    \/ a.n < b.n
    \/ a.n = b.n /\ a.k = "int" /\ b.k = "float"

\* min(a, b): Python returns the first argument unless the second is smaller
PyMin(a, b) == IF NumLess(b, a) THEN b ELSE a

None == "None"

Now == "ts"

\* text[:n]
PyClip(text, n) == SubSeq(text, 1, IF Len(text) < n THEN Len(text) ELSE n)

Contains(hay, needle) ==
    \E i \in 1..(Len(hay) + 1) :
        /\ i + Len(needle) - 1 <= Len(hay)
        /\ SubSeq(hay, i, i + Len(needle) - 1) = needle

\* ---------------------------------------------------------------- registry
AllAgentNames ==
    << "GPT-4o", "ChatGPT 4 Turbo", "DeepSeek R1", "Meta Llama 3.3",
       "Mistral Large", "Gemini 2.0 Flash", "Perplexity Pro", "Gemini Pro 1.5",
       "Command R+", "Qwen 2.5 72B", "Llama 3.3 70B", "Mixtral 8x22B",
       "Yi Large", "Nous Hermes 3", "WizardLM 2", "Dolphin Mixtral",
       "OpenHermes 2.5", "Starling 7B", "Neural Chat", "Zephyr Beta" >>

NumAgents == 2 * NumPairs

RELAY_AGENTS == [i \in 1..NumAgents |-> [name |-> AllAgentNames[i]]]

\* ------------------------------------------------------------------ inputs
Prompts == { << >>, <<"X">> }

Replies == { <<"r1">>, <<"r2">> }

\* what the network does with one POST to the provider
NetOutcomes ==
    { [kind |-> "ok", content |-> r] : r \in Replies }
    \cup { [kind |-> "status", content |-> <<"500", " - ", "upstream">>],
           [kind |-> "malformed", content |-> <<"<exc>">>],
           [kind |-> "exception", content |-> <<"<exc>">>] }

NetFailed(net) == net.kind # "ok"

RelayBodies ==
    { [prompt |-> p] : p \in Prompts }
    \cup { [x \in {} |-> 0] }

MaxAgentsValues ==
    { PyInt(n) : n \in -1..MaxAgentsReq } \cup { PyFloat(1), PyNull }

ChainBodies ==
    { [prompt |-> p] : p \in Prompts }
    \cup { [prompt |-> p, max_agents |-> m] : p \in Prompts \ {<< >>}, m \in MaxAgentsValues }
    \cup { [max_agents |-> PyInt(1)] }

\* the ids uuid4 can return, and an id no start request ever returned
SessionIds == {"s1"}

FabricatedId == "s0"


\* ----------------------------------------------------------- model invoker
\* mutant: a failed call returns an empty text
call_openrouter_api_silent(agent, message, net) ==
    IF net.kind = "ok" THEN net.content ELSE << >>

\* call_openrouter_api: the text on 200 with a well-formed payload, an
\* "Error: <status> - <text>" string on another status, an "API Error: <e>"
\* string when requests.post or the payload lookup raises
call_openrouter_api(agent, message, net) ==
    CASE net.kind = "ok" -> net.content
      [] net.kind = "status" -> <<"Error: ">> \o net.content
      [] OTHER -> <<"API Error: ">> \o net.content

IsErrorText(text) == text # << >> /\ Head(text) \in {"Error: ", "API Error: "}

CallRecord(agent_index, message, net) ==
    [agent |-> agent_index, message |-> message, failed |-> NetFailed(net),
     text |-> call_openrouter_api(agent_index, message, net)]

\* ------------------------------------------------------------ relay: start
\* the session dict is stored and the daemon thread started with its arguments
Spawn(sid, session, first_pc, max_agents) ==
    /\ active_sessions' = PyPut(active_sessions, sid, session)
    /\ worker' = PyPut(worker, sid,
                       [pc |-> first_pc, prompt |-> session.prompt,
                        max_agents |-> max_agents,
                        i |-> 0, a |-> << >>, b |-> << >>])
    /\ calls' = PyPut(calls, sid, << >>)
    /\ stop_requested' = PyPut(stop_requested, sid, FALSE)
    /\ stop_results' = PyPut(stop_results, sid, -1)
    /\ UNCHANGED refused

\* the request is answered 400 "Prompt is required" and nothing else happens
Refuse ==
    /\ refused' = TRUE
    /\ UNCHANGED <<active_sessions, worker, calls, stop_requested, stop_results>>

\* mutant: the session is registered as already at its first pair
panel_session_advanced(prompt) ==
    [mode |-> "expert_panel",
     prompt |-> prompt,
     status |-> "starting",
     created_at |-> Now,
     current_pair |-> 1,
     total_pairs |-> NumPairs,
     current_agents |-> <<"Initializing...", "Waiting...">>]

panel_session(prompt) ==
    [mode |-> "expert_panel",
     prompt |-> prompt,
     status |-> "starting",
     created_at |-> Now,
     current_pair |-> 0,
     total_pairs |-> NumPairs,
     current_agents |-> <<"Initializing...", "Waiting...">>]

\* what start-expert-panel answers when uuid4 returns sid
start_expert_panel_response(data, sid) ==
    IF PyGet(data, "prompt", << >>) = << >>
    THEN [code |-> 400, status |-> "error"]
    ELSE [code |-> 200, status |-> "started", session_id |-> sid,
          mode |-> "expert_panel", total_pairs |-> NumPairs]

\* mutant: the session is stored and its thread started before the prompt is
\* looked at
start_expert_panel_late_check(data, sid) ==
    /\ service = "relay"
    /\ sid \notin DOMAIN active_sessions
    /\ active_sessions' = PyPut(active_sessions, sid,
                                panel_session(PyGet(data, "prompt", << >>)))
    /\ worker' = PyPut(worker, sid,
                       [pc |-> "p_status", prompt |-> PyGet(data, "prompt", << >>),
                        max_agents |-> PyInt(DefaultMaxAgents),
                        i |-> 0, a |-> << >>, b |-> << >>])
    /\ calls' = PyPut(calls, sid, << >>)
    /\ stop_requested' = PyPut(stop_requested, sid, FALSE)
    /\ stop_results' = PyPut(stop_results, sid, -1)
    /\ refused' = (refused \/ PyGet(data, "prompt", << >>) = << >>)
    /\ UNCHANGED <<service, conf_vars, pipe_vars>>

\* lines 181-206: the prompt is checked first; uuid4 then gives an id not in use
start_expert_panel(data, sid) ==
    /\ service = "relay"
    /\ IF PyGet(data, "prompt", << >>) = << >>
       THEN Refuse
       ELSE /\ sid \notin DOMAIN active_sessions
            /\ Spawn(sid, panel_session(data.prompt), "p_status", PyInt(DefaultMaxAgents))
    /\ UNCHANGED <<service, conf_vars, pipe_vars>>

chain_session(prompt, max_agents) ==
    [mode |-> "conference_chain",
     prompt |-> prompt,
     status |-> "starting",
     created_at |-> Now,
     current_agent |-> 0,
     total_agents |-> PyMin(max_agents, PyInt(NumAgents)),
     current_agent_name |-> "Initializing..."]

\* min(None, 20) raises TypeError while the session dict is built: 500
start_conference_chain_response(data, sid) ==
    LET max_agents == PyGet(data, "max_agents", PyInt(DefaultMaxAgents))
    IN IF PyGet(data, "prompt", << >>) = << >>
       THEN [code |-> 400, status |-> "error"]
       ELSE IF ~NumOk(max_agents)
       THEN [code |-> 500, status |-> "error"]
       ELSE [code |-> 200, status |-> "started", session_id |-> sid,
             mode |-> "conference_chain",
             total_agents |-> PyMin(max_agents, PyInt(NumAgents))]

start_conference_chain(data, sid) ==
    /\ service = "relay"
    /\ LET max_agents == PyGet(data, "max_agents", PyInt(DefaultMaxAgents))
       IN IF PyGet(data, "prompt", << >>) = << >>
          THEN Refuse
          ELSE IF ~NumOk(max_agents)
          THEN UNCHANGED relay_vars
          ELSE /\ sid \notin DOMAIN active_sessions
               /\ Spawn(sid, chain_session(data.prompt, max_agents), "c_status", max_agents)
    /\ UNCHANGED <<service, conf_vars, pipe_vars>>

\* ---------------------------------------------------- relay: worker threads
SetKeys(sid, kv) ==
    active_sessions' =
        [active_sessions EXCEPT ![sid] =
            [x \in DOMAIN @ \cup DOMAIN kv |-> IF x \in DOMAIN kv THEN kv[x] ELSE @[x]]]

At(s, pc) == s \in DOMAIN worker /\ worker[s].pc = pc

Goto(s, pc) == worker' = [worker EXCEPT ![s].pc = pc]

LogCall(s, agent_index, message, net) ==
    calls' = [calls EXCEPT ![s] = Append(@, CallRecord(agent_index, message, net))]

WorkerFrame == UNCHANGED <<service, conf_vars, stop_requested, stop_results, refused, pipe_vars>>

\* expert_panel_worker, line 83
p_status(s) ==
    /\ At(s, "p_status")
    /\ SetKeys(s, [status |-> "running"])
    /\ Goto(s, "p_results")
    /\ UNCHANGED calls /\ WorkerFrame

\* lines 84-91: results = [], the pairs are built, total_pairs = len(pairs)
p_results(s) ==
    /\ At(s, "p_results")
    /\ SetKeys(s, [results |-> << >>, total_pairs |-> NumPairs])
    /\ Goto(s, "p_loop")
    /\ UNCHANGED calls /\ WorkerFrame

\* lines 93-95: the next pair of the enumeration, and the stop check
p_loop(s) ==
    /\ At(s, "p_loop")
    /\ IF worker[s].i >= NumPairs
       THEN Goto(s, "p_finish_status")
       ELSE IF PyGet(active_sessions[s], "status", None) = "stopped"
       THEN Goto(s, "p_finish_status")
       ELSE Goto(s, "p_current")
    /\ UNCHANGED <<active_sessions, calls>> /\ WorkerFrame

\* lines 97-98
p_current(s) ==
    /\ At(s, "p_current")
    /\ LET i == worker[s].i
       IN SetKeys(s, [current_pair |-> i + 1,
                      current_agents |-> << RELAY_AGENTS[2 * i + 1].name,
                                            RELAY_AGENTS[2 * i + 2].name >>])
    /\ Goto(s, "p_call_a")
    /\ UNCHANGED calls /\ WorkerFrame

\* line 101: agent A answers the prompt
p_call_a(s) ==
    /\ At(s, "p_call_a")
    /\ \E net \in NetOutcomes :
         LET agent == 2 * worker[s].i + 1
             message == worker[s].prompt
         IN /\ worker' = [worker EXCEPT
                             ![s].a = call_openrouter_api(agent, message, net),
                             ![s].pc = "p_call_b"]
            /\ LogCall(s, agent, message, net)
    /\ UNCHANGED active_sessions /\ WorkerFrame

\* mutant: agent B is sent the prompt followed by agent A's response
p_call_b_sees_a(s) ==
    /\ At(s, "p_call_b")
    /\ \E net \in NetOutcomes :
         LET agent == 2 * worker[s].i + 2
             message == worker[s].prompt \o worker[s].a
         IN /\ worker' = [worker EXCEPT
                             ![s].b = call_openrouter_api(agent, message, net),
                             ![s].pc = "p_append"]
            /\ LogCall(s, agent, message, net)
    /\ UNCHANGED active_sessions /\ WorkerFrame

\* line 104: agent B answers the same prompt
p_call_b(s) ==
    /\ At(s, "p_call_b")
    /\ \E net \in NetOutcomes :
         LET agent == 2 * worker[s].i + 2
             message == worker[s].prompt
         IN /\ worker' = [worker EXCEPT
                             ![s].b = call_openrouter_api(agent, message, net),
                             ![s].pc = "p_append"]
            /\ LogCall(s, agent, message, net)
    /\ UNCHANGED active_sessions /\ WorkerFrame

pair_result(w) ==
    [pair_number |-> w.i + 1,
     agent_a |-> [name |-> RELAY_AGENTS[2 * w.i + 1].name, response |-> w.a],
     agent_b |-> [name |-> RELAY_AGENTS[2 * w.i + 2].name, response |-> w.b],
     timestamp |-> Now]

\* mutant: a pair whose two calls failed leaves no result
p_append_drops_failed(s) ==
    /\ At(s, "p_append")
    /\ IF IsErrorText(worker[s].a) /\ IsErrorText(worker[s].b)
       THEN UNCHANGED active_sessions
       ELSE SetKeys(s, [results |-> Append(active_sessions[s].results,
                                           pair_result(worker[s]))])
    /\ worker' = [worker EXCEPT ![s].a = << >>, ![s].b = << >>,
                                ![s].i = @ + 1, ![s].pc = "p_loop"]
    /\ UNCHANGED calls /\ WorkerFrame

\* lines 107-125: the pair result is appended, then the loop sleeps
p_append(s) ==
    /\ At(s, "p_append")
    /\ SetKeys(s, [results |-> Append(active_sessions[s].results, pair_result(worker[s]))])
    /\ worker' = [worker EXCEPT ![s].a = << >>, ![s].b = << >>,
                                ![s].i = @ + 1, ![s].pc = "p_loop"]
    /\ UNCHANGED calls /\ WorkerFrame

\* mutant: the final write leaves a stopped status alone
p_finish_status_keeps_stop(s) ==
    /\ At(s, "p_finish_status")
    /\ IF active_sessions[s].status = "stopped"
       THEN UNCHANGED active_sessions
       ELSE SetKeys(s, [status |-> "completed"])
    /\ Goto(s, "p_finish_time")
    /\ UNCHANGED calls /\ WorkerFrame

\* line 127
p_finish_status(s) ==
    /\ At(s, "p_finish_status")
    /\ SetKeys(s, [status |-> "completed"])
    /\ Goto(s, "p_finish_time")
    /\ UNCHANGED calls /\ WorkerFrame

\* line 128
p_finish_time(s) ==
    /\ At(s, "p_finish_time")
    /\ SetKeys(s, [completed_at |-> Now])
    /\ Goto(s, "done")
    /\ UNCHANGED calls /\ WorkerFrame

expert_panel_worker(s) ==
    \/ p_status(s) \/ p_results(s) \/ p_loop(s) \/ p_current(s)
    \/ p_call_a(s) \/ p_call_b(s) \/ p_append(s)
    \/ p_finish_status(s) \/ p_finish_time(s)


\* every response recorded so far, each tagged by its agent's name
RECURSIVE Transcript(_)
Transcript(results) ==
    IF results = << >>
    THEN << >>
    ELSE Transcript(SubSeq(results, 1, Len(results) - 1))
         \o <<"[", results[Len(results)].agent_name, "]", " ">>
         \o results[Len(results)].response \o <<"\n">>

\* mutant: every earlier response is passed on, tagged by agent name
chain_message_rolling(prompt, agent_index, results) ==
    IF agent_index = 0
    THEN prompt
    ELSE <<"ORIGINAL PROMPT:", " ">> \o prompt
         \o <<"\n", "\n", "PREVIOUS INSIGHT:", " ">> \o Transcript(results)
         \o <<"\n", "\n", "Build upon this insight with your expertise:">>

\* lines 148-154: the first agent gets the prompt, the others the prompt and
\* the response of the last recorded result
chain_message(prompt, agent_index, results) ==
    IF agent_index = 0
    THEN prompt
    ELSE <<"ORIGINAL PROMPT:", " ">> \o prompt
         \o <<"\n", "\n", "PREVIOUS INSIGHT:", " ">> \o results[Len(results)].response
         \o <<"\n", "\n", "Build upon this insight with your expertise:">>

\* conference_chain_worker, line 133
c_status(s) ==
    /\ At(s, "c_status")
    /\ SetKeys(s, [status |-> "running"])
    /\ Goto(s, "c_init")
    /\ UNCHANGED calls /\ WorkerFrame

\* lines 134-139: results = [], sticky_context, total_agents, and the loop's
\* range(total_agents), which raises TypeError on a float and ends the thread
c_init(s) ==
    /\ At(s, "c_init")
    /\ LET total == PyMin(worker[s].max_agents, PyInt(NumAgents))
       IN /\ SetKeys(s, [results |-> << >>,
                         sticky_context |-> worker[s].prompt,
                         total_agents |-> total])
          /\ IF total.k = "int" THEN Goto(s, "c_loop") ELSE Goto(s, "crashed")
    /\ UNCHANGED calls /\ WorkerFrame

\* mutant: the loop goes on without looking at the status
c_loop_ignores_stop(s) ==
    /\ At(s, "c_loop")
    /\ IF worker[s].i >= active_sessions[s].total_agents.n
       THEN Goto(s, "c_finish_status")
       ELSE Goto(s, "c_current")
    /\ UNCHANGED <<active_sessions, calls>> /\ WorkerFrame

\* lines 139-141: the next index of the range, and the stop check
c_loop(s) ==
    /\ At(s, "c_loop")
    /\ IF worker[s].i >= active_sessions[s].total_agents.n
       THEN Goto(s, "c_finish_status")
       ELSE IF PyGet(active_sessions[s], "status", None) = "stopped"
       THEN Goto(s, "c_finish_status")
       ELSE Goto(s, "c_current")
    /\ UNCHANGED <<active_sessions, calls>> /\ WorkerFrame

\* lines 143-145
c_current(s) ==
    /\ At(s, "c_current")
    /\ SetKeys(s, [current_agent |-> worker[s].i + 1,
                   current_agent_name |-> RELAY_AGENTS[worker[s].i + 1].name])
    /\ Goto(s, "c_call")
    /\ UNCHANGED calls /\ WorkerFrame

\* mutant: a call that failed is made a second time
c_call_retries(s) ==
    /\ At(s, "c_call")
    /\ \E net \in NetOutcomes :
         LET agent == worker[s].i + 1
             message == chain_message(worker[s].prompt, worker[s].i,
                                      active_sessions[s].results)
             record == CallRecord(agent, message, net)
         IN /\ worker' = [worker EXCEPT
                             ![s].a = call_openrouter_api(agent, message, net),
                             ![s].pc = "c_append"]
            /\ calls' = [calls EXCEPT ![s] =
                            IF NetFailed(net) THEN @ \o <<record, record>>
                                              ELSE Append(@, record)]
    /\ UNCHANGED active_sessions /\ WorkerFrame

\* lines 147-157: the message is built and the agent called
c_call(s) ==
    /\ At(s, "c_call")
    /\ \E net \in NetOutcomes :
         LET agent == worker[s].i + 1
             message == chain_message(worker[s].prompt, worker[s].i,
                                      active_sessions[s].results)
         IN /\ worker' = [worker EXCEPT
                             ![s].a = call_openrouter_api(agent, message, net),
                             ![s].pc = "c_append"]
            /\ LogCall(s, agent, message, net)
    /\ UNCHANGED active_sessions /\ WorkerFrame

\* mutant: every result is marked as built on sticky context
chain_result_always_sticky(w) ==
    [agent_number |-> w.i + 1,
     agent_name |-> RELAY_AGENTS[w.i + 1].name,
     response |-> w.a,
     sticky_context_used |-> TRUE,
     timestamp |-> Now]

chain_result(w) ==
    [agent_number |-> w.i + 1,
     agent_name |-> RELAY_AGENTS[w.i + 1].name,
     response |-> w.a,
     sticky_context_used |-> w.i > 0,
     timestamp |-> Now]

\* mutant: the newest result is put in front of the list
c_append_prepends(s) ==
    /\ At(s, "c_append")
    /\ SetKeys(s, [results |-> <<chain_result(worker[s])>> \o active_sessions[s].results])
    /\ worker' = [worker EXCEPT ![s].a = << >>, ![s].i = @ + 1, ![s].pc = "c_loop"]
    /\ UNCHANGED calls /\ WorkerFrame

\* mutant: a failed call ends the loop and its result is dropped
c_append_aborts(s) ==
    /\ At(s, "c_append")
    /\ IF IsErrorText(worker[s].a)
       THEN /\ worker' = [worker EXCEPT ![s].a = << >>, ![s].pc = "c_finish_status"]
            /\ UNCHANGED active_sessions
       ELSE /\ SetKeys(s, [results |-> Append(active_sessions[s].results,
                                              chain_result(worker[s]))])
            /\ worker' = [worker EXCEPT ![s].a = << >>, ![s].i = @ + 1,
                                        ![s].pc = "c_loop"]
    /\ UNCHANGED calls /\ WorkerFrame

\* lines 159-172: the result is appended, then the loop sleeps
c_append(s) ==
    /\ At(s, "c_append")
    /\ SetKeys(s, [results |-> Append(active_sessions[s].results, chain_result(worker[s]))])
    /\ worker' = [worker EXCEPT ![s].a = << >>, ![s].i = @ + 1, ![s].pc = "c_loop"]
    /\ UNCHANGED calls /\ WorkerFrame

\* mutant: finishing also resets the progress counter
c_finish_status_resets(s) ==
    /\ At(s, "c_finish_status")
    /\ SetKeys(s, [status |-> "completed", current_agent |-> 0])
    /\ Goto(s, "c_finish_time")
    /\ UNCHANGED calls /\ WorkerFrame

\* line 174
c_finish_status(s) ==
    /\ At(s, "c_finish_status")
    /\ SetKeys(s, [status |-> "completed"])
    /\ Goto(s, "c_finish_time")
    /\ UNCHANGED calls /\ WorkerFrame

\* line 175
c_finish_time(s) ==
    /\ At(s, "c_finish_time")
    /\ SetKeys(s, [completed_at |-> Now])
    /\ Goto(s, "done")
    /\ UNCHANGED calls /\ WorkerFrame

conference_chain_worker(s) ==
    \/ c_status(s) \/ c_init(s) \/ c_loop(s) \/ c_current(s)
    \/ c_call(s) \/ c_append(s)
    \/ c_finish_status(s) \/ c_finish_time(s)

\* -------------------------------------------------- relay: polling and stop
NotFound == [code |-> 404, status |-> "error", message |-> "Session not found"]

get_session_status(sid) ==
    IF sid \notin DOMAIN active_sessions
    THEN NotFound
    ELSE LET session == active_sessions[sid]
         IN [code |-> 200, status |-> "success",
             session_data |->
               [session_id |-> sid,
                mode |-> session.mode,
                status |-> session.status,
                current_pair |-> PyGet(session, "current_pair", 0),
                total_pairs |-> PyGet(session, "total_pairs", 0),
                current_agent |-> PyGet(session, "current_agent", 0),
                total_agents |-> PyGet(session, "total_agents", PyInt(0)),
                current_agents |-> PyGet(session, "current_agents", << >>),
                current_agent_name |-> PyGet(session, "current_agent_name", ""),
                results_count |-> Len(PyGet(session, "results", << >>)),
                created_at |-> session.created_at,
                completed_at |-> PyGet(session, "completed_at", None)]]

get_session_results(sid) ==
    IF sid \notin DOMAIN active_sessions
    THEN NotFound
    ELSE LET session == active_sessions[sid]
         IN [code |-> 200, status |-> "success",
             session_id |-> sid,
             mode |-> session.mode,
             prompt |-> session.prompt,
             results |-> PyGet(session, "results", << >>),
             total_results |-> Len(PyGet(session, "results", << >>)),
             completed |-> (session.status = "completed"),
             created_at |-> session.created_at,
             completed_at |-> PyGet(session, "completed_at", None)]

\* mutant: the report leaves out the results that hold an error text
html_cards_hides_errors(session) ==
    LET results == PyGet(session, "results", << >>)
        shown == SelectSeq(results, LAMBDA r :
                    IF session.mode = "expert_panel"
                    THEN ~IsErrorText(r.agent_a.response)
                    ELSE ~IsErrorText(r.response))
    IN IF session.mode = "expert_panel"
       THEN [k \in 1..(2 * Len(shown)) |->
               LET r == shown[(k + 1) \div 2]
                   leg == IF k % 2 = 1 THEN r.agent_a ELSE r.agent_b
               IN [pair_number |-> r.pair_number, name |-> leg.name,
                   response |-> leg.response]]
       ELSE [k \in 1..Len(shown) |->
               [agent_number |-> shown[k].agent_number,
                name |-> shown[k].agent_name,
                response |-> shown[k].response]]

\* lines 368-396: the cards of the report, in result order
html_cards(session) ==
    LET results == PyGet(session, "results", << >>)
    IN IF session.mode = "expert_panel"
       THEN [k \in 1..(2 * Len(results)) |->
               LET r == results[(k + 1) \div 2]
                   leg == IF k % 2 = 1 THEN r.agent_a ELSE r.agent_b
               IN [pair_number |-> r.pair_number, name |-> leg.name,
                   response |-> leg.response]]
       ELSE [k \in 1..Len(results) |->
               [agent_number |-> results[k].agent_number,
                name |-> results[k].agent_name,
                response |-> results[k].response]]

generate_html_report(sid) ==
    IF sid \notin DOMAIN active_sessions
    THEN NotFound
    ELSE IF PyGet(active_sessions[sid], "results", << >>) = << >>
    THEN [code |-> 400, status |-> "error", message |-> "No results to generate report"]
    ELSE [code |-> 200, status |-> "success", session_id |-> sid,
          mode |-> active_sessions[sid].mode,
          prompt |-> active_sessions[sid].prompt,
          total_results |-> Len(active_sessions[sid].results),
          cards |-> html_cards(active_sessions[sid])]

stop_session_response(sid) ==
    IF sid \notin DOMAIN active_sessions
    THEN NotFound
    ELSE [code |-> 200, status |-> "success", message |-> "Session stopped"]

\* history: how many results the session had when a stop first found it running
StopSeen(sid) ==
    stop_results' =
        IF active_sessions[sid].status = "running" /\ stop_results[sid] = -1
        THEN [stop_results EXCEPT
                ![sid] = Len(PyGet(active_sessions[sid], "results", << >>))]
        ELSE stop_results

\* mutant: stopping also clears what the session collected
stop_session_clears(sid) ==
    /\ service = "relay"
    /\ IF sid \notin DOMAIN active_sessions
       THEN UNCHANGED <<active_sessions, stop_requested, stop_results>>
       ELSE /\ SetKeys(sid, [status |-> "stopped", results |-> << >>])
            /\ stop_requested' = [stop_requested EXCEPT ![sid] = TRUE]
            /\ StopSeen(sid)
    /\ UNCHANGED <<service, conf_vars, worker, calls, refused, pipe_vars>>

\* mutant: stopping an id that is not in the store puts a stopped session there
stop_session_creates(sid) ==
    /\ service = "relay"
    /\ IF sid \notin DOMAIN active_sessions
       THEN /\ active_sessions' =
                  PyPut(active_sessions, sid,
                        [panel_session(<<"X">>) EXCEPT !.status = "stopped"])
            /\ UNCHANGED <<stop_requested, stop_results>>
       ELSE /\ SetKeys(sid, [status |-> "stopped"])
            /\ stop_requested' = [stop_requested EXCEPT ![sid] = TRUE]
            /\ StopSeen(sid)
    /\ UNCHANGED <<service, conf_vars, worker, calls, refused, pipe_vars>>

\* lines 413-429: the status is overwritten whatever it was
stop_session(sid) ==
    /\ service = "relay"
    /\ IF sid \notin DOMAIN active_sessions
       THEN UNCHANGED <<active_sessions, stop_requested, stop_results>>
       ELSE /\ SetKeys(sid, [status |-> "stopped"])
            /\ stop_requested' = [stop_requested EXCEPT ![sid] = TRUE]
            /\ StopSeen(sid)
    /\ UNCHANGED <<service, conf_vars, worker, calls, refused, pipe_vars>>

\* the read-only routes answer and leave every variable alone
poll_session_status(sid) ==
    /\ service = "relay"
    /\ get_session_status(sid).code \in {200, 404}
    /\ UNCHANGED vars

poll_session_results(sid) ==
    /\ service = "relay"
    /\ get_session_results(sid).code \in {200, 404}
    /\ UNCHANGED vars

poll_html_report(sid) ==
    /\ service = "relay"
    /\ generate_html_report(sid).code \in {200, 400, 404}
    /\ UNCHANGED vars

\* ---------------------------------------------------------------- pipelines
ApiKeys == { << >>, <<"sk-key">> }

Whitespace == {" ", "\n"}

RECURSIVE LStrip(_)
LStrip(text) ==
    IF text # << >> /\ Head(text) \in Whitespace THEN LStrip(Tail(text)) ELSE text

RECURSIVE RStrip(_)
RStrip(text) ==
    IF text # << >> /\ text[Len(text)] \in Whitespace
    THEN RStrip(SubSeq(text, 1, Len(text) - 1))
    ELSE text

\* str.strip()
PyStrip(text) == RStrip(LStrip(text))

Models == {"m1", "m2"}

PipePrompts == { << >>, <<" ">>, <<"X">>, <<" ", "X">> }

AgentLists == UNION { [1..n -> Models] : n \in 0..MaxChainAgents }

ChainRunBodies ==
    { [prompt |-> p, agents |-> a] : p \in PipePrompts, a \in AgentLists }
    \cup { [agents |-> <<"m1">>], [prompt |-> <<"X">>] }

DefaultChainSystem == <<"You are part of a relay; be precise and cite assumptions.">>

DefaultAggregator == "openai/gpt-5"

\* call_llm: the text of the first choice, or an exception: RuntimeError when
\* the key is missing (before any request), the transport's exception,
\* HTTPError from raise_for_status, KeyError on a malformed payload
call_llm(model, messages, net) ==
    IF OPENROUTER_API_KEY = << >>
    THEN [raised |-> TRUE, sent |-> FALSE, text |-> << >>]
    ELSE IF net.kind = "ok"
    THEN [raised |-> FALSE, sent |-> TRUE, text |-> net.content]
    ELSE [raised |-> TRUE, sent |-> TRUE, text |-> << >>]

LogLlm(role, model, messages, out) ==
    pipe_calls' = IF out.sent
                  THEN Append(pipe_calls, [role |-> role, model |-> model,
                                           messages |-> messages,
                                           failed |-> out.raised, text |-> out.text])
                  ELSE pipe_calls

\* summarize_with_gpt5, lines 24-32: the editor's message over the traces
summary_message(title, prompt, traces) ==
    [title |-> title, prompt |-> prompt,
     bullets |-> [k \in 1..Len(traces) |->
                    [agent |-> traces[k].agent,
                     text |-> PyClip(traces[k].last_text, SummaryClip)]]]

\* an exception that leaves the view function: Flask answers 500
InternalServerError(route, data) ==
    [pc |-> "responded", route |-> route, data |-> data, code |-> 500]

PipeFrame == UNCHANGED <<service, conf_vars, relay_vars, OPENROUTER_API_KEY>>

\* chain_run, lines 93-102: the body is read and checked
chain_run(data) ==
    /\ service = "pipelines"
    /\ pipe.pc = "idle"
    /\ LET prompt == PyStrip(PyGet(data, "prompt", << >>))
           agents == PyGet(data, "agents", << >>)
       IN pipe' = IF prompt = << >> \/ agents = << >>
                  THEN [pc |-> "responded", route |-> "chain_run", data |-> data,
                        code |-> 400]
                  ELSE [pc |-> "chain_call", route |-> "chain_run", data |-> data,
                        prompt |-> prompt, agents |-> agents,
                        i |-> 0, prev |-> << >>, traces |-> << >>]
    /\ UNCHANGED pipe_calls /\ PipeFrame

\* mutant: the reply of the agent before is not passed on
chain_tag_forgets(prompt, prev) ==
    <<"Initial prompt (do not lose context):", "\n">> \o prompt
    \o <<"\n", "\n", "Previous reply (if any):", "\n", "[none]">>
    \o <<"\n", "\n",
         "Your task: advance the solution. Be incremental, avoid restating prior content.">>

\* lines 104-108
chain_tag(prompt, prev) ==
    <<"Initial prompt (do not lose context):", "\n">> \o prompt
    \o <<"\n", "\n", "Previous reply (if any):", "\n">>
    \o (IF prev = << >> THEN <<"[none]">> ELSE prev)
    \o <<"\n", "\n",
         "Your task: advance the solution. Be incremental, avoid restating prior content.">>

\* lines 103-112: one turn of the loop; an exception of call_llm leaves chain_run
chain_run_call ==
    /\ service = "pipelines"
    /\ pipe.pc = "chain_call"
    /\ pipe.i < Len(pipe.agents)
    /\ \E net \in NetOutcomes :
         LET m == pipe.agents[pipe.i + 1]
             msg == << [role |-> "system", content |-> DefaultChainSystem],
                       [role |-> "user", content |-> chain_tag(pipe.prompt, pipe.prev)] >>
             out == call_llm(m, msg, net)
         IN /\ LogLlm("agent", m, msg, out)
            /\ pipe' = IF out.raised
                       THEN InternalServerError("chain_run", pipe.data)
                       ELSE [pipe EXCEPT
                               !.traces = Append(@, [agent |-> m, last_text |-> out.text]),
                               !.prev = out.text,
                               !.i = @ + 1]
    /\ PipeFrame

\* lines 114-115: the report, then the answer
chain_run_summarize ==
    /\ service = "pipelines"
    /\ pipe.pc = "chain_call"
    /\ pipe.i >= Len(pipe.agents)
    /\ \E net \in NetOutcomes :
         LET msg == << [role |-> "system", content |-> <<"Concise, structured, no fluff.">>],
                       [role |-> "user",
                        content |-> summary_message("Conference Chain Report",
                                                    pipe.prompt, pipe.traces)] >>
             out == call_llm(DefaultAggregator, msg, net)
         IN /\ LogLlm("aggregator", DefaultAggregator, msg, out)
            /\ pipe' = IF out.raised
                       THEN InternalServerError("chain_run", pipe.data)
                       ELSE [pc |-> "responded", route |-> "chain_run",
                             data |-> pipe.data, code |-> 200,
                             traces |-> pipe.traces, report |-> out.text]
    /\ PipeFrame

\* ------------------------------------------------------ pipelines: pairs
PairLists ==
    UNION { [1..n -> { <<"m1", "m2">>, <<"m2", "m1">> }] : n \in 0..MaxPairsReq }

\* one pair more than the pool takes, which run_pair leaves at once (no round)
OverfullBody ==
    [prompt |-> <<"X">>, pairs |-> [k \in 1..(PoolCap + 1) |-> <<"m1", "m2">>],
     rounds |-> -1]

\* one pair with any number of rounds, more pairs with one round
PairsRunBodies ==
    { [prompt |-> p, pairs |-> << >>] : p \in PipePrompts }
    \cup { [prompt |-> <<"X">>, pairs |-> ps] : ps \in { x \in PairLists : Len(x) = 1 } }
    \cup { [prompt |-> <<"X">>, pairs |-> ps, rounds |-> r] :
             ps \in { x \in PairLists : Len(x) = 1 }, r \in -1..MaxRoundsReq }
    \cup { [prompt |-> <<" ", "X">>, pairs |-> ps, rounds |-> 1] :
             ps \in { x \in PairLists : Len(x) >= 2 } }
    \cup { OverfullBody }

DefaultPairsSystem == <<"Be rigorous, cite assumptions, keep responses tight.">>

\* int(data.get("rounds") or 3)
pairs_rounds(data) ==
    IF PyGet(data, "rounds", 0) = 0 THEN DefaultRounds ELSE data.rounds

\* run_pair as submitted, lines 59-61: a thread of the pool takes it at once,
\* the pool having min(10, len(pairs)) threads for at most 10 submissions
submitted_pair(pair, prompt, rounds) ==
    [ai |-> pair[1], bi |-> pair[2],
     pc |-> IF rounds > 0 THEN "a" ELSE "returned",
     r |-> 0,
     msg |-> << [role |-> "system", content |-> DefaultPairsSystem],
                [role |-> "user", content |-> prompt] >>,
     a_last |-> << >>, b_last |-> << >>]

\* mutant: every pair of the body is submitted
pairs_run_unclipped(data) ==
    /\ service = "pipelines"
    /\ pipe.pc = "idle"
    /\ LET prompt == PyStrip(PyGet(data, "prompt", << >>))
           pairs == PyGet(data, "pairs", << >>)
           rounds == pairs_rounds(data)
       IN pipe' = IF prompt = << >> \/ pairs = << >>
                  THEN [pc |-> "responded", route |-> "pairs_run", data |-> data,
                        code |-> 400]
                  ELSE [pc |-> "pairs_collect", route |-> "pairs_run", data |-> data,
                        prompt |-> prompt, rounds |-> rounds,
                        max_workers |-> IF Len(pairs) < PoolCap THEN Len(pairs) ELSE PoolCap,
                        units |-> [k \in 1..Len(pairs) |->
                                     submitted_pair(pairs[k], prompt, rounds)],
                        collected |-> {}, traces |-> << >>]
    /\ UNCHANGED pipe_calls /\ PipeFrame

\* pairs_run, lines 47-74: the body is read and checked, the pairs submitted
pairs_run(data) ==
    /\ service = "pipelines"
    /\ pipe.pc = "idle"
    /\ LET prompt == PyStrip(PyGet(data, "prompt", << >>))
           pairs == PyGet(data, "pairs", << >>)
           rounds == pairs_rounds(data)
           submitted == PyClip(pairs, PoolCap)
       IN pipe' = IF prompt = << >> \/ pairs = << >>
                  THEN [pc |-> "responded", route |-> "pairs_run", data |-> data,
                        code |-> 400]
                  ELSE [pc |-> "pairs_collect", route |-> "pairs_run", data |-> data,
                        prompt |-> prompt, rounds |-> rounds,
                        max_workers |-> IF Len(pairs) < PoolCap THEN Len(pairs) ELSE PoolCap,
                        units |-> [k \in 1..Len(submitted) |->
                                     submitted_pair(submitted[k], prompt, rounds)],
                        collected |-> {}, traces |-> << >>]
    /\ UNCHANGED pipe_calls /\ PipeFrame

PoolRunning == pipe.pc \in {"pairs_collect", "pairs_unwind"}

\* lines 62-64: agent A's turn of a round
run_pair_a(k) ==
    /\ pipe.units[k].pc = "a"
    /\ \E net \in NetOutcomes :
         LET u == pipe.units[k]
             out == call_llm(u.ai, u.msg, net)
         IN /\ LogLlm("agent", u.ai, u.msg, out)
            /\ pipe' = IF out.raised
                       THEN [pipe EXCEPT !.units[k].pc = "raised"]
                       ELSE [pipe EXCEPT
                               !.units[k].a_last = out.text,
                               !.units[k].msg = @ \o
                                  << [role |-> "assistant", content |-> out.text],
                                     [role |-> "user", content |->
                                        <<"Respond to the above, challenge assumptions briefly.">>] >>,
                               !.units[k].pc = "b"]

\* mutant: agent B is sent the opening messages only, without A's reply
run_pair_b_blind(k) ==
    /\ pipe.units[k].pc = "b"
    /\ \E net \in NetOutcomes :
         LET u == pipe.units[k]
             out == call_llm(u.bi, SubSeq(u.msg, 1, 2), net)
         IN /\ LogLlm("agent", u.bi, SubSeq(u.msg, 1, 2), out)
            /\ pipe' = IF out.raised
                       THEN [pipe EXCEPT !.units[k].pc = "raised"]
                       ELSE [pipe EXCEPT
                               !.units[k].b_last = out.text,
                               !.units[k].msg = @ \o
                                  << [role |-> "assistant", content |-> out.text],
                                     [role |-> "user", content |->
                                        <<"Short rebuttal to the last point.">>] >>,
                               !.units[k].r = @ + 1,
                               !.units[k].pc = IF u.r + 1 < pipe.rounds THEN "a" ELSE "returned"]

\* lines 65-67: agent B's turn, then the next round or the return
run_pair_b(k) ==
    /\ pipe.units[k].pc = "b"
    /\ \E net \in NetOutcomes :
         LET u == pipe.units[k]
             out == call_llm(u.bi, u.msg, net)
         IN /\ LogLlm("agent", u.bi, u.msg, out)
            /\ pipe' = IF out.raised
                       THEN [pipe EXCEPT !.units[k].pc = "raised"]
                       ELSE [pipe EXCEPT
                               !.units[k].b_last = out.text,
                               !.units[k].msg = @ \o
                                  << [role |-> "assistant", content |-> out.text],
                                     [role |-> "user", content |->
                                        <<"Short rebuttal to the last point.">>] >>,
                               !.units[k].r = @ + 1,
                               !.units[k].pc = IF u.r + 1 < pipe.rounds THEN "a" ELSE "returned"]

run_pair(k) ==
    /\ service = "pipelines"
    /\ PoolRunning
    /\ k \in DOMAIN pipe.units
    /\ (run_pair_a(k) \/ run_pair_b(k))
    /\ PipeFrame

UnitDone(u) == u.pc \in {"returned", "raised"}

\* lines 75-77: as_completed hands over a finished future; result() returns the
\* pair's two traces or raises what run_pair raised
pairs_run_collect(k) ==
    /\ service = "pipelines"
    /\ pipe.pc = "pairs_collect"
    /\ k \in DOMAIN pipe.units /\ k \notin pipe.collected
    /\ UnitDone(pipe.units[k])
    /\ LET u == pipe.units[k]
       IN pipe' = IF u.pc = "raised"
                  THEN [pipe EXCEPT !.pc = "pairs_unwind"]
                  ELSE [pipe EXCEPT
                          !.collected = @ \cup {k},
                          !.traces = @ \o << [agent |-> u.ai, last_text |-> u.a_last],
                                             [agent |-> u.bi, last_text |-> u.b_last] >>]
    /\ UNCHANGED pipe_calls /\ PipeFrame

\* mutant: the exception is answered without waiting for the pool's threads
pairs_run_unwind_early ==
    /\ service = "pipelines"
    /\ pipe.pc = "pairs_unwind"
    /\ pipe' = InternalServerError("pairs_run", pipe.data)
    /\ UNCHANGED pipe_calls /\ PipeFrame

\* the exception leaves the with block, whose exit waits for every thread
pairs_run_unwind ==
    /\ service = "pipelines"
    /\ pipe.pc = "pairs_unwind"
    /\ \A k \in DOMAIN pipe.units : UnitDone(pipe.units[k])
    /\ pipe' = InternalServerError("pairs_run", pipe.data)
    /\ UNCHANGED pipe_calls /\ PipeFrame

\* lines 79-80: the report, then the answer
pairs_run_summarize ==
    /\ service = "pipelines"
    /\ pipe.pc = "pairs_collect"
    /\ pipe.collected = DOMAIN pipe.units
    /\ \E net \in NetOutcomes :
         LET msg == << [role |-> "system", content |-> <<"Concise, structured, no fluff.">>],
                       [role |-> "user",
                        content |-> summary_message("Pairs Debate Report",
                                                    pipe.prompt, pipe.traces)] >>
             out == call_llm(DefaultAggregator, msg, net)
         IN /\ LogLlm("aggregator", DefaultAggregator, msg, out)
            /\ pipe' = IF out.raised
                       THEN InternalServerError("pairs_run", pipe.data)
                       ELSE [pc |-> "responded", route |-> "pairs_run",
                             data |-> pipe.data, code |-> 200,
                             traces |-> pipe.traces, report |-> out.text]
    /\ PipeFrame

\* ------------------------------------------------------------- conferences
AllConferenceKeys ==
    << "moderator", "strategic_analyst", "technical_expert", "creative_director",
       "risk_assessor", "market_researcher", "financial_advisor", "legal_counsel",
       "operations_manager", "customer_advocate" >>

AllConferenceNames ==
    << "Conference Moderator", "Strategic Analyst", "Technical Expert",
       "Creative Director", "Risk Assessor", "Market Researcher",
       "Financial Advisor", "Legal Counsel", "Operations Manager",
       "Customer Advocate" >>

\* list(CONFERENCE_AGENTS.keys()), in insertion order
ConferenceKeys == [i \in 1..NumConfAgents |-> AllConferenceKeys[i]]

CONFERENCE_AGENTS ==
    [k \in { ConferenceKeys[i] : i \in 1..NumConfAgents } |->
        [name |-> AllConferenceNames[CHOOSE i \in 1..NumConfAgents : ConferenceKeys[i] = k]]]

ConferenceIds == {"c1"}

UnknownConferenceId == "c0"

AnyConferenceId == ConferenceIds \cup {UnknownConferenceId}

\* the server handles requests in threads; two of them are followed
Handlers == {"h1", "h2"}

Idle == [pc |-> "idle"]

StartBodies ==
    { [topic |-> <<"T">>, rounds |-> PyInt(1)],
      [topic |-> <<"T">>, participants |-> <<"strategic_analyst">>],
      [topic |-> <<"T">>, participants |-> <<"strategic_analyst", "ghost">>,
       rounds |-> PyInt(1)],
      [topic |-> <<"T">>, participants |-> <<"strategic_analyst">>, rounds |-> PyInt(0)],
      [topic |-> <<"T">>, participants |-> << >>, rounds |-> PyInt(1)],
      [topic |-> <<"T">>, participants |-> <<"strategic_analyst">>, rounds |-> PyNull],
      [topic |-> << >>],
      [x \in {} |-> 0] }

ContinueBodies ==
    { [x \in {} |-> 0], [participant |-> "strategic_analyst"], [participant |-> "ghost"] }

\* what the provider does with one POST: a 200 with a completion, another
\* status, or an exception of requests.post or of reading the body
ConferenceOutcomes ==
    { [kind |-> "ok", content |-> <<"c1">>],
      [kind |-> "status", content |-> << >>],
      [kind |-> "exception", content |-> << >>] }

\* lines 93-104
conference_session(cid, data) ==
    [id |-> cid,
     topic |-> data.topic,
     type |-> PyGet(data, "type", "roundtable"),
     participants |-> PyGet(data, "participants", ConferenceKeys),
     rounds |-> PyGet(data, "rounds", PyInt(DefaultDurationRounds)),
     current_round |-> 0,
     messages |-> << >>,
     status |-> "active",
     created_at |-> Now,
     moderator_notes |-> << >>]

\* lines 150-156
opening_message(text) ==
    [round |-> 0,
     speaker |-> "moderator",
     speaker_name |-> "Conference Moderator",
     message |-> text,
     timestamp |-> Now]

\* what /start answers when uuid4 returns cid and the provider does net
start_conference_response(data, cid, net) ==
    IF PyGet(data, "topic", << >>) = << >>
    THEN [code |-> 400, error |-> "Conference topic is required"]
    ELSE IF net.kind = "exception"
    THEN [code |-> 500, error |-> "<exc>"]
    ELSE [code |-> 200, status |-> "success", conference_id |-> cid]

\* lines 78-164: the conference is stored before the moderator is called, so
\* it stays in the store whatever the call does; the opening is appended on a
\* 200 only. The id reaches the client with the response, so the handler is
\* one step.
start_conference(data, cid) ==
    /\ service = "conference"
    /\ IF PyGet(data, "topic", << >>) = << >>
       THEN UNCHANGED <<active_conferences, conf_hist>>
       ELSE /\ cid \notin DOMAIN active_conferences
            /\ \E net \in ConferenceOutcomes :
                 /\ active_conferences' =
                       PyPut(active_conferences, cid,
                             IF net.kind = "ok"
                             THEN [conference_session(cid, data) EXCEPT
                                      !.messages = << opening_message(net.content) >>]
                             ELSE conference_session(cid, data))
                 /\ conf_hist' =
                       PyPut(conf_hist, cid,
                             [opened |-> net.kind = "ok", continues |-> 0,
                              named |-> FALSE, failed |-> FALSE])
    /\ UNCHANGED <<service, handler, relay_vars, pipe_vars>>

\* lines 170-189: what /continue answers before it calls the provider; code 0
\* stands for going on with the speaker chosen
continue_conference_check(cid, data) ==
    IF cid \notin DOMAIN active_conferences
    THEN [code |-> 404, error |-> "Conference not found", speaker |-> None]
    ELSE LET conference == active_conferences[cid]
             named == PyGet(data, "participant", None)
         IN IF conference.status # "active"
            THEN [code |-> 400, error |-> "Conference is not active", speaker |-> None]
            ELSE IF named = None /\ Len(conference.participants) = 0
            THEN [code |-> 500, error |-> "<exc>", speaker |-> None]
            ELSE LET next_participant ==
                        IF named = None
                        THEN conference.participants[
                                 (conference.current_round % Len(conference.participants)) + 1]
                        ELSE named
                 IN IF next_participant \notin DOMAIN CONFERENCE_AGENTS
                    THEN [code |-> 400, error |-> "Invalid participant", speaker |-> None]
                    ELSE [code |-> 0, error |-> "", speaker |-> next_participant]

\* requests are taken by the first free thread
FreeHandler(h) ==
    /\ handler[h].pc = "idle"
    /\ h = "h2" => handler["h1"].pc # "idle"

\* history: whether a continue request named its speaker, whether one failed;
\* the continue requests are counted while neither has happened
Plain(cid) == ~conf_hist[cid].named /\ ~conf_hist[cid].failed

Asked(cid, named, failed) ==
    conf_hist' =
        [conf_hist EXCEPT
           ![cid].continues = IF Plain(cid) /\ ~named /\ ~failed THEN @ + 1 ELSE 0,
           ![cid].named = @ \/ named,
           ![cid].failed = @ \/ failed]

Failed(cid) == conf_hist' = [conf_hist EXCEPT ![cid].continues = 0, ![cid].failed = TRUE]

\* lines 166-206: a thread takes the request, checks it and builds the prompt
continue_begin(h, cid, data) ==
    /\ service = "conference"
    /\ FreeHandler(h)
    /\ LET check == continue_conference_check(cid, data)
       IN IF check.code = 404
          THEN UNCHANGED <<handler, conf_hist>>
          ELSE /\ Len(active_conferences[cid].messages) < MaxMessages
               /\ Asked(cid, "participant" \in DOMAIN data, check.code # 0)
               /\ IF check.code # 0
                  THEN UNCHANGED handler
                  ELSE handler' = [handler EXCEPT
                                     ![h] = [pc |-> "post", cid |-> cid,
                                             speaker |-> check.speaker,
                                             text |-> << >>, read |-> 0]]
    /\ UNCHANGED <<service, active_conferences, relay_vars, pipe_vars>>

Handling(h, pc) == handler[h].pc = pc

ConfFrame == UNCHANGED <<service, relay_vars, pipe_vars>>

\* mutant: a provider failure is recorded in the conference as a message
continue_post_records_failure(h) ==
    /\ Handling(h, "post")
    /\ \E net \in ConferenceOutcomes :
         IF net.kind = "ok"
         THEN /\ handler' = [handler EXCEPT ![h].pc = "append", ![h].text = net.content]
              /\ UNCHANGED <<conf_hist, active_conferences>>
         ELSE /\ handler' = [handler EXCEPT ![h] = Idle]
              /\ Failed(handler[h].cid)
              /\ active_conferences' =
                    [active_conferences EXCEPT
                       ![handler[h].cid].messages =
                           Append(@, [round |-> active_conferences[handler[h].cid].current_round,
                                      speaker |-> handler[h].speaker,
                                      speaker_name |-> CONFERENCE_AGENTS[handler[h].speaker].name,
                                      message |-> <<"Response failed">>,
                                      timestamp |-> Now])]
    /\ ConfFrame

\* lines 208-234 and 249-260: the provider is called; without a 200 the
\* request is answered at once, 'Response failed' or the exception's text
continue_post(h) ==
    /\ Handling(h, "post")
    /\ \E net \in ConferenceOutcomes :
         IF net.kind = "ok"
         THEN /\ handler' = [handler EXCEPT ![h].pc = "append", ![h].text = net.content]
              /\ UNCHANGED conf_hist
         ELSE /\ handler' = [handler EXCEPT ![h] = Idle]
              /\ Failed(handler[h].cid)
    /\ UNCHANGED active_conferences /\ ConfFrame

participant_message(conference, speaker, text) ==
    [round |-> conference.current_round,
     speaker |-> speaker,
     speaker_name |-> CONFERENCE_AGENTS[speaker].name,
     message |-> text,
     timestamp |-> Now]

\* lines 235-241
continue_append(h) ==
    /\ Handling(h, "append")
    /\ LET cid == handler[h].cid
       IN active_conferences' =
             [active_conferences EXCEPT
                ![cid].messages =
                    Append(@, participant_message(active_conferences[cid],
                                                  handler[h].speaker, handler[h].text))]
    /\ handler' = [handler EXCEPT ![h].pc = "incr_read"]
    /\ UNCHANGED conf_hist /\ ConfFrame

\* line 243, conference['current_round'] += 1: the value is read ...
continue_incr_read(h) ==
    /\ Handling(h, "incr_read")
    /\ handler' = [handler EXCEPT
                     ![h].read = active_conferences[handler[h].cid].current_round,
                     ![h].pc = "incr_write"]
    /\ UNCHANGED <<active_conferences, conf_hist>> /\ ConfFrame

\* ... and written back one higher; the two are not one atomic step
continue_incr_write(h) ==
    /\ Handling(h, "incr_write")
    /\ active_conferences' =
          [active_conferences EXCEPT ![handler[h].cid].current_round = handler[h].read + 1]
    /\ handler' = [handler EXCEPT ![h].pc = "finish"]
    /\ UNCHANGED conf_hist /\ ConfFrame

\* the conference has run its planned rounds, line 246
Due(conference) ==
    conference.current_round >= conference.rounds.n * Len(conference.participants)

\* lines 246-257: rounds * len(participants) raises TypeError when rounds is
\* null (answered 500); otherwise the status is set when the rounds are done
\* and the request is answered with the conference
continue_finish(h) ==
    /\ Handling(h, "finish")
    /\ LET cid == handler[h].cid
           conference == active_conferences[cid]
       IN IF conference.rounds.k # "int"
          THEN /\ UNCHANGED active_conferences
               /\ Failed(cid)
          ELSE /\ active_conferences' =
                     IF Due(conference)
                     THEN [active_conferences EXCEPT ![cid].status = "completed"]
                     ELSE active_conferences
               /\ UNCHANGED conf_hist
    /\ handler' = [handler EXCEPT ![h] = Idle]
    /\ ConfFrame

continue_conference(h) ==
    \/ continue_post(h) \/ continue_append(h)
    \/ continue_incr_read(h) \/ continue_incr_write(h) \/ continue_finish(h)

\* what /synthesize answers when the provider does net
synthesize_conference_response(cid, net) ==
    IF cid \notin DOMAIN active_conferences
    THEN [code |-> 404, error |-> "Conference not found"]
    ELSE IF net.kind = "exception"
    THEN [code |-> 500, error |-> "<exc>"]
    ELSE [code |-> 200, status |-> "success", conference_id |-> cid,
          synthesis |-> IF net.kind = "ok" THEN net.content ELSE <<"Synthesis failed">>,
          total_messages |-> Len(active_conferences[cid].messages),
          rounds_completed |-> active_conferences[cid].current_round]

\* mutant: the text reported for a failed call is stored as the synthesis
synthesize_stores_failure(cid, net) ==
    /\ service = "conference"
    /\ IF cid \notin DOMAIN active_conferences
       THEN UNCHANGED active_conferences
       ELSE active_conferences' =
               [active_conferences EXCEPT
                  ![cid] = PyPut(PyPut(@, "synthesis",
                                       IF net.kind = "ok" THEN net.content
                                                          ELSE <<"Synthesis failed">>),
                                 "synthesized_at", Now)]
    /\ UNCHANGED <<service, handler, conf_hist, relay_vars, pipe_vars>>

\* lines 262-336 with the provider doing net: the handler reads the conference
\* for the transcript and writes to it only after a 200, the two keys
\* synthesis and synthesized_at
synthesize(cid, net) ==
    /\ service = "conference"
    /\ IF cid \notin DOMAIN active_conferences
       THEN UNCHANGED active_conferences
       ELSE active_conferences' =
               IF net.kind = "ok"
               THEN [active_conferences EXCEPT
                       ![cid] = PyPut(PyPut(@, "synthesis", net.content),
                                      "synthesized_at", Now)]
               ELSE active_conferences
    /\ UNCHANGED <<service, handler, conf_hist, relay_vars, pipe_vars>>

synthesize_conference(cid) == \E net \in ConferenceOutcomes : synthesize(cid, net)

ConferenceNotFound == [code |-> 404, error |-> "Conference not found"]

\* lines 357-366
get_conference(cid) ==
    IF cid \notin DOMAIN active_conferences
    THEN ConferenceNotFound
    ELSE [code |-> 200, status |-> "success", conference |-> active_conferences[cid]]

\* lines 338-355
list_conferences ==
    [code |-> 200, status |-> "success",
     conferences |->
        { [id |-> cid,
           topic |-> active_conferences[cid].topic,
           type |-> active_conferences[cid].type,
           status |-> active_conferences[cid].status,
           participants |-> Len(active_conferences[cid].participants),
           messages |-> Len(active_conferences[cid].messages),
           created_at |-> active_conferences[cid].created_at] :
          cid \in DOMAIN active_conferences }]

poll_get_conference(cid) ==
    /\ service = "conference"
    /\ get_conference(cid).code \in {200, 404}
    /\ UNCHANGED vars

poll_list_conferences ==
    /\ service = "conference"
    /\ list_conferences.code = 200
    /\ UNCHANGED vars


\* ------------------------------------------------------------ specification
Init ==
    /\ service \in {"relay", "pipelines", "conference"}
    /\ active_sessions = << >>
    /\ worker = << >>
    /\ calls = << >>
    /\ stop_requested = << >>
    /\ stop_results = << >>
    /\ refused = FALSE
    /\ OPENROUTER_API_KEY \in (IF service = "pipelines" THEN ApiKeys ELSE {<<"sk-key">>})
    /\ pipe = [pc |-> "idle"]
    /\ pipe_calls = << >>
    /\ active_conferences = << >>
    /\ handler = [h \in Handlers |-> Idle]
    /\ conf_hist = << >>

AnyId == SessionIds \cup {FabricatedId}

WorkerStep(s) == expert_panel_worker(s) \/ conference_chain_worker(s)

RelayNext ==
    \/ \E data \in RelayBodies, sid \in SessionIds : start_expert_panel(data, sid)
    \/ \E data \in ChainBodies, sid \in SessionIds : start_conference_chain(data, sid)
    \/ \E sid \in AnyId : poll_session_status(sid)
    \/ \E sid \in AnyId : poll_session_results(sid)
    \/ \E sid \in AnyId : poll_html_report(sid)
    \/ \E sid \in AnyId : stop_session(sid)
    \/ \E s \in SessionIds : expert_panel_worker(s)
    \/ \E s \in SessionIds : conference_chain_worker(s)

PipelinesNext ==
    \/ \E data \in ChainRunBodies : chain_run(data)
    \/ chain_run_call
    \/ chain_run_summarize
    \/ \E data \in PairsRunBodies : pairs_run(data)
    \/ \E k \in 1..PoolCap : run_pair(k)
    \/ \E k \in 1..PoolCap : pairs_run_collect(k)
    \/ pairs_run_unwind
    \/ pairs_run_summarize

ConferenceNext ==
    \/ \E data \in StartBodies, cid \in ConferenceIds : start_conference(data, cid)
    \/ \E h \in Handlers, cid \in AnyConferenceId, data \in ContinueBodies :
          continue_begin(h, cid, data)
    \/ \E h \in Handlers : continue_conference(h)
    \/ \E cid \in AnyConferenceId : synthesize_conference(cid)
    \/ \E cid \in AnyConferenceId : poll_get_conference(cid)
    \/ poll_list_conferences

Next == RelayNext \/ PipelinesNext \/ ConferenceNext

Spec == Init /\ [][Next]_vars

\* every started thread is scheduled again and again until it ends
LiveSpec == Init /\ [][Next]_vars /\ \A s \in SessionIds : WF_vars(WorkerStep(s))

\* ------------------------------------------------------------------ claims
Sessions == DOMAIN active_sessions

Status(s) == active_sessions[s].status

Results(s) == PyGet(active_sessions[s], "results", << >>)

Terminal == {"completed", "error"}

\* the units of work of a session's run: the pairs of a panel, the agents of a chain
Units(s) ==
    IF active_sessions[s].mode = "expert_panel"
    THEN NumPairs
    ELSE IF active_sessions[s].total_agents.n > 0 THEN active_sessions[s].total_agents.n ELSE 0

\* C1: the status of a session only moves starting -> running -> completed or
\* error, and nothing changes a status that is completed or error.
C1_StatusForwardOnly ==
    [][\A s \in Sessions :
          \/ Status(s)' = Status(s)
          \/ <<Status(s), Status(s)'>> \in
                { <<"starting", "running">>, <<"running", "completed">>,
                  <<"running", "error">> }]_vars

\* C2: every session that was started eventually has a terminal status, when
\* every model call returns and the worker thread keeps being scheduled.
C2_EventuallyTerminal ==
    \A s \in SessionIds :
        (At(s, "p_status") \/ At(s, "c_status"))
            ~> (s \in Sessions /\ Status(s) \in Terminal)

\* C3: stop-session on a completed session leaves the session record as it
\* was, and a second stop leaves what the first stop left.
C3_StopIsNoOpOnTerminal ==
    [][\A s \in Sessions :
          /\ (Status(s) \in Terminal /\ stop_session(s))
                => active_sessions'[s] = active_sessions[s]
          /\ (Status(s) = "stopped" /\ stop_session(s))
                => active_sessions'[s] = active_sessions[s]]_vars

\* C4: stop-session on a completed session leaves its results list as it was.
C4_StopKeepsResults ==
    [][\A s \in Sessions :
          (Status(s) = "completed" /\ stop_session(s)) => Results(s)' = Results(s)]_vars

C4_Witness ==
    \E s \in Sessions :
        /\ At(s, "done") /\ Status(s) = "stopped"
        /\ Len(Results(s)) = Units(s) /\ Units(s) >= 2

\* C5: once a session is completed and its worker has ended, session-results
\* returns the same data on every later call, whatever is handled in between.
C5_ResultsStable ==
    [][\A s \in Sessions :
          (At(s, "done") /\ get_session_results(s).completed)
             => get_session_results(s)' = get_session_results(s)]_vars

StatusView(s) == get_session_status(s).session_data

\* C6: the progress values session-status reports (current_pair,
\* current_agent, results_count) never decrease from one step to the next,
\* hence between any two polls.
C6_ProgressMonotone ==
    [][\A s \in Sessions :
          /\ StatusView(s)'.current_pair >= StatusView(s).current_pair
          /\ StatusView(s)'.current_agent >= StatusView(s).current_agent
          /\ StatusView(s)'.results_count >= StatusView(s).results_count]_vars

C6_Witness ==
    \E s \in Sessions :
        /\ stop_requested[s]
        /\ StatusView(s).results_count >= 2
        /\ StatusView(s).current_pair + StatusView(s).current_agent >= 2

\* the responses the session recorded for the calls of its k-th unit
Recorded(s, k) ==
    IF active_sessions[s].mode = "expert_panel"
    THEN << Results(s)[k].agent_a.response, Results(s)[k].agent_b.response >>
    ELSE << Results(s)[k].response >>

CallsPerUnit(s) == IF active_sessions[s].mode = "expert_panel" THEN 2 ELSE 1

\* C7: a failed model call is recorded as the agent's result (an error text),
\* and the worker still runs every remaining unit: unless it was stopped, a
\* worker that ended leaves status completed and one result per unit.
C7_FailureDoesNotAbort ==
    \A s \in Sessions :
        /\ \A k \in 1..Len(Results(s)) : \A j \in 1..CallsPerUnit(s) :
              LET call == calls[s][CallsPerUnit(s) * (k - 1) + j]
              IN call.failed <=> IsErrorText(Recorded(s, k)[j])
        /\ (At(s, "done") /\ ~stop_requested[s])
              => /\ Status(s) = "completed"
                 /\ Len(Results(s)) = Units(s)
                 /\ Len(calls[s]) = CallsPerUnit(s) * Units(s)

C7_Witness ==
    \E s \in Sessions :
        /\ At(s, "done") /\ ~stop_requested[s] /\ Status(s) = "completed"
        /\ Len(calls[s]) >= 3
        /\ \A k \in 1..Len(calls[s]) : calls[s][k].failed


AgentCalls == SelectSeq(pipe_calls, LAMBDA c : c.role = "agent")

Accepted == pipe.pc = "responded" /\ pipe.code # 400

\* the agent invocations an accepted run is to make
ExpectedAgentCalls ==
    IF pipe.route = "chain_run"
    THEN Len(pipe.data.agents)
    ELSE IF pairs_rounds(pipe.data) > 0
         THEN 2 * pairs_rounds(pipe.data) * Len(pipe.data.pairs)
         ELSE 0

\* C8: in chain-run and pairs-run a failed model call does not abort the run:
\* every agent of the run is still invoked and the response carries the
\* traces of the run.
C8_PipelineFailureDoesNotAbort ==
    (Accepted /\ OPENROUTER_API_KEY # << >>
        /\ \E k \in 1..Len(AgentCalls) : AgentCalls[k].failed)
       => /\ Len(AgentCalls) = ExpectedAgentCalls
          /\ "traces" \in DOMAIN pipe

ChainSessions == { s \in Sessions : active_sessions[s].mode = "conference_chain" }

UserContent(call) == call.messages[2].content

\* a chain-run request whose body was accepted
ChainRunning ==
    /\ pipe.pc # "idle"
    /\ pipe.route = "chain_run"
    /\ "code" \in DOMAIN pipe => pipe.code # 400

\* the k-th message of a chain carries `prompt` and the reply to the message
\* before it, and the first message carries no reply at all
CarriesPrevious(messages, replies, prompt) ==
    \A k \in 1..Len(messages) :
        /\ Contains(messages[k], prompt)
        /\ k = 1 => \A r \in Replies : ~Contains(messages[k], r)
        /\ k > 1 => Contains(messages[k], replies[k - 1])

RelayMessages(s) == [k \in 1..Len(calls[s]) |-> calls[s][k].message]

RelayReplies(s) == [k \in 1..Len(calls[s]) |-> calls[s][k].text]

PipeMessages == [k \in 1..Len(AgentCalls) |-> UserContent(AgentCalls[k])]

PipeReplies == [k \in 1..Len(AgentCalls) |-> AgentCalls[k].text]

\* C9 as stated: in a chain the message sent to agent k+1 contains the
\* original prompt and the exact reply of agent k, and the message sent to the
\* first agent contains the original prompt and no reply.
C9_MessageHasOriginalPrompt ==
    /\ \A s \in ChainSessions :
          CarriesPrevious(RelayMessages(s), RelayReplies(s), active_sessions[s].prompt)
    /\ ChainRunning =>
          CarriesPrevious(PipeMessages, PipeReplies, PyGet(pipe.data, "prompt", << >>))

\* C9 amended: as stated, but in chain-run the prompt the messages contain is
\* the request's prompt with leading and trailing whitespace stripped.
C9_MessageHasPromptAndPreviousReply ==
    /\ \A s \in ChainSessions :
          CarriesPrevious(RelayMessages(s), RelayReplies(s), active_sessions[s].prompt)
    /\ ChainRunning =>
          CarriesPrevious(PipeMessages, PipeReplies,
                          PyStrip(PyGet(pipe.data, "prompt", << >>)))

C9_Witness ==
    /\ ChainRunning
    /\ pipe.pc = "responded" /\ pipe.code = 200
    /\ pipe.data.prompt # PyStrip(pipe.data.prompt)
    /\ Len(AgentCalls) >= 3
    /\ AgentCalls[1].text # AgentCalls[2].text

\* the k-th message carries every reply before it
CarriesAll(messages, replies) ==
    \A k \in 1..Len(messages) : \A j \in 1..(k - 1) : Contains(messages[k], replies[j])

CarriesOnlyPrevious(messages, replies, prompt) ==
    \A k \in 2..Len(messages) :
        /\ Contains(messages[k], prompt)
        /\ Contains(messages[k], replies[k - 1])
        /\ \A j \in 1..(k - 2) :
              Contains(messages[k], replies[j])
                 => Contains(replies[k - 1], replies[j]) \/ Contains(prompt, replies[j])

C11_ChainTurnsInOrder ==
    \A s \in ChainSessions :
        /\ Len(calls[s]) - Len(Results(s)) \in {0, 1}
        /\ Len(calls[s]) > Len(Results(s)) <=> At(s, "c_append")
        /\ \A k \in 1..Len(calls[s]) : calls[s][k].agent = k
        /\ \A k \in 1..Len(Results(s)) :
              /\ Results(s)[k].agent_number = k
              /\ Results(s)[k].agent_name = RELAY_AGENTS[k].name
              /\ Results(s)[k].response = calls[s][k].text

C11_Witness ==
    \E s \in ChainSessions :
        /\ At(s, "c_append")
        /\ Len(Results(s)) = 2 /\ Len(calls[s]) = 3
        /\ calls[s][1].text # calls[s][2].text


\* C12: when agent k's call fails in a chain session, an error text for agent
\* k is what the worker holds and appends as agent k's result, and the message
\* sent to agent k+1 contains that error text: the failed turn is missing
\* neither from the results nor from what the next agent is told.
C12_FailureMarkerPassedOn ==
    \A s \in ChainSessions : \A k \in 1..Len(calls[s]) :
        calls[s][k].failed =>
            /\ k <= Len(Results(s))
                  => /\ IsErrorText(Results(s)[k].response)
                     /\ Results(s)[k].agent_number = calls[s][k].agent
            /\ k > Len(Results(s))
                  => At(s, "c_append") /\ IsErrorText(worker[s].a)
            /\ k < Len(calls[s])
                  => /\ IsErrorText(Results(s)[k].response)
                     /\ Contains(calls[s][k + 1].message, Results(s)[k].response)

C12_Witness ==
    \E s \in ChainSessions :
        /\ Len(calls[s]) >= 3
        /\ ~calls[s][1].failed /\ calls[s][2].failed
        /\ Contains(calls[s][3].message, <<"Error: ", "500", " - ", "upstream">>)


\* the record the session keeps for its n-th call: a chain result, or the
\* agent_a / agent_b entry of a pair result
Leg(s, n) ==
    IF active_sessions[s].mode = "expert_panel"
    THEN IF n % 2 = 1 THEN Results(s)[(n + 1) \div 2].agent_a
                      ELSE Results(s)[(n + 1) \div 2].agent_b
    ELSE Results(s)[n]

\* C13: every recorded result has exactly one of (response, error) non-null:
\* a call that succeeded left a response and a null error, a call that failed
\* left a non-null error and a null response.
C13_ExactlyOneOfResponseError ==
    \A s \in Sessions : \A n \in 1..(CallsPerUnit(s) * Len(Results(s))) :
        LET response == PyGet(Leg(s, n), "response", None)
            error == PyGet(Leg(s, n), "error", None)
        IN /\ (response = None) # (error = None)
           /\ calls[s][n].failed => error # None /\ response = None
           /\ ~calls[s][n].failed => response # None /\ error = None


\* the worker of session s is at a call it has started and not finished
CallOutstanding(s) == worker[s].pc \in {"p_call_a", "p_call_b", "c_call"}

\* a thread of the pairs-run pool still has calls to make or to finish
PoolOutstanding ==
    /\ PoolRunning
    /\ \E k \in DOMAIN pipe.units : ~UnitDone(pipe.units[k])

\* C14: no step makes a session completed while a call of its worker is
\* outstanding, and no step answers a pairs-run request while a thread of its
\* pool is still running: every call of the run has returned, with a text or
\* a failure, before the completion can be seen.
C14_NoCompletionWhileOutstanding ==
    [][/\ \A s \in Sessions :
             (Status(s)' = "completed" /\ Status(s) # "completed")
                => ~CallOutstanding(s) /\ ~CallOutstanding(s)'
       /\ (pipe'.pc = "responded" /\ PoolRunning) => ~PoolOutstanding]_vars

C14_Witness ==
    /\ pipe.pc = "responded" /\ pipe.route = "pairs_run"
    /\ Len(pipe.data.pairs) = 2
    /\ \E k \in 1..Len(AgentCalls) : AgentCalls[k].failed
    /\ Len(AgentCalls) = 3


PanelSessions == { s \in Sessions : active_sessions[s].mode = "expert_panel" }

\* C15: in an expert panel session whose status is completed, the agent
\* results recorded (two per pair result) are as many as the calls the worker
\* dispatched, each holding what its call returned, however many calls failed.
C15_PanelResultsMatchCalls ==
    \A s \in PanelSessions :
        Status(s) = "completed" =>
            /\ 2 * Len(Results(s)) = Len(calls[s])
            /\ \A n \in 1..Len(calls[s]) : Leg(s, n).response = calls[s][n].text

C15_Witness ==
    \E s \in PanelSessions :
        /\ Status(s) = "completed"
        /\ Len(calls[s]) = 2 * NumPairs
        /\ calls[s][1].failed /\ calls[s][2].failed /\ ~calls[s][3].failed


\* what the session reports as its position, and the position of a full run
Position(s) ==
    IF s \in PanelSessions THEN active_sessions[s].current_pair
                           ELSE active_sessions[s].current_agent

\* C16: a session with status completed is complete: once its worker has
\* ended, its completed_at is set, it holds a result for every unit of the run
\* and its position (current_pair, current_agent) is the last unit.
C16_CompletedIsComplete ==
    \A s \in Sessions :
        (Status(s) = "completed" /\ At(s, "done")) =>
            /\ PyGet(active_sessions[s], "completed_at", None) # None
            /\ Len(Results(s)) = Units(s)
            /\ Position(s) = Units(s)


\* C17: once stop-session has marked a running session stopped, the worker
\* finds the status at its next check and starts no further unit: the session
\* gains at most one result after the stop, that of the pair or agent being
\* processed when the stop came.
C17_StopEndsDispatch ==
    \A s \in Sessions :
        stop_results[s] >= 0 =>
            /\ Len(Results(s)) <= stop_results[s] + 1
            /\ Len(calls[s]) <= CallsPerUnit(s) * (stop_results[s] + 1)

C17_Witness ==
    \E s \in Sessions :
        /\ stop_results[s] = 1
        /\ Len(Results(s)) = 2
        /\ Units(s) >= 3
        /\ At(s, "done")


\* C18: session-status never shows a half-made update of a session: when it
\* reports status completed it reports a completed_at that is not null, and
\* when it reports status running the results it counts were already
\* initialised by the worker.
C18_StatusReadIsConsistent ==
    \A s \in Sessions :
        /\ StatusView(s).status = "completed" => StatusView(s).completed_at # None
        /\ StatusView(s).status = "running" => "results" \in DOMAIN active_sessions[s]


\* C19: a start request with a missing or empty prompt is answered 400 before
\* anything is created: the step that refuses it leaves the session store, the
\* worker threads and the call logs as they were, and every session a step
\* creates has a prompt.
C19_EmptyPromptCreatesNothing ==
    [][/\ (refused' /\ ~refused)
             => UNCHANGED <<active_sessions, worker, calls>>
       /\ \A sid \in SessionIds, data \in RelayBodies \cup ChainBodies :
             PyGet(data, "prompt", << >>) = << >>
                => /\ start_expert_panel_response(data, sid).code = 400
                   /\ start_conference_chain_response(data, sid).code = 400
                   /\ (start_expert_panel(data, sid) \/ start_conference_chain(data, sid))
                         => UNCHANGED <<active_sessions, worker, calls>>
       /\ \A s \in DOMAIN active_sessions' \ DOMAIN active_sessions :
             active_sessions'[s].prompt # << >>]_vars

C19_Witness ==
    /\ refused
    /\ active_sessions = << >> /\ worker = << >> /\ calls = << >>


\* the agents or pairs a pipelines request names
Selection(data) ==
    IF pipe.route = "chain_run" THEN PyGet(data, "agents", << >>)
                                ELSE PyGet(data, "pairs", << >>)

\* C20: a start request that selects no usable agent is refused and nothing is
\* created or called: no chain session exists with total_agents <= 0, and a
\* pipelines request with an empty agents or pairs list is answered 400 without
\* a call to the provider.
C20_ZeroAgentsRefused ==
    /\ \A s \in ChainSessions :
          active_sessions[s].total_agents.k = "int"
             => active_sessions[s].total_agents.n >= 1
    /\ (pipe.pc # "idle" /\ Selection(pipe.data) = << >>)
          => pipe.pc = "responded" /\ pipe.code = 400 /\ pipe_calls = << >>


\* C21: a start request answers with an id whose session is already in the
\* store in its initial state: the step that starts a session leaves it
\* readable by session-status with status starting, position 0 and no results,
\* and session-status never answers 404 for an id a start request returned.
C21_StartRegistersFirst ==
    [][/\ \A s \in DOMAIN worker' \ DOMAIN worker :
             /\ get_session_status(s)'.code = 200
             /\ StatusView(s)'.status = "starting"
             /\ StatusView(s)'.current_pair = 0
             /\ StatusView(s)'.current_agent = 0
             /\ StatusView(s)'.results_count = 0
             /\ get_session_results(s)'.results = << >>
       /\ \A s \in DOMAIN worker : get_session_status(s)'.code = 200]_vars

C21_Witness ==
    \E s \in PanelSessions :
        /\ At(s, "p_status")
        /\ StatusView(s).status = "starting"
        /\ StatusView(s).results_count = 0
        /\ start_expert_panel_response([prompt |-> <<"X">>], s).session_id = s


\* C22: session-status, session-results, generate-html-report and stop-session
\* answer 404 for an id that is not in the store and leave the store as it
\* is: a session only ever enters the store by a start request, in status
\* starting and with its worker thread.
C22_UnknownIdIsNotFound ==
    [][/\ \A sid \in AnyId \ Sessions :
             /\ get_session_status(sid) = NotFound
             /\ get_session_results(sid) = NotFound
             /\ generate_html_report(sid) = NotFound
             /\ stop_session_response(sid) = NotFound
             /\ (\/ stop_session(sid) \/ poll_session_status(sid)
                 \/ poll_session_results(sid) \/ poll_html_report(sid))
                   => UNCHANGED active_sessions
       /\ \A sid \in DOMAIN active_sessions' \ DOMAIN active_sessions :
             /\ active_sessions'[sid].status = "starting"
             /\ sid \in DOMAIN worker' \ DOMAIN worker]_vars

C22_Witness ==
    /\ \E s \in Sessions : At(s, "c_append") /\ Len(Results(s)) >= 1
    /\ FabricatedId \notin Sessions
    /\ stop_session_response(FabricatedId).code = 404
    /\ generate_html_report(FabricatedId).code = 404


\* C23: for a session in the store, generate-html-report answers 400 "No
\* results" exactly when the session has no recorded result, and otherwise
\* answers 200 with one card per recorded agent result, in result order, each
\* showing that result's agent and response.
C23_ReportNeedsResults ==
    \A s \in Sessions :
        LET report == generate_html_report(s)
        IN /\ report.code = 400 <=> Results(s) = << >>
           /\ Results(s) # << >> =>
                 /\ report.code = 200
                 /\ Len(report.cards) = CallsPerUnit(s) * Len(Results(s))
                 /\ \A n \in 1..Len(report.cards) :
                       /\ report.cards[n].response = Leg(s, n).response
                       /\ report.cards[n].name
                             = PyGet(Leg(s, n), "name", PyGet(Leg(s, n), "agent_name", None))

C23_Witness ==
    \E s \in Sessions :
        /\ Len(Results(s)) = 2
        /\ generate_html_report(s).code = 200
        /\ IsErrorText(Leg(s, 1).response) /\ ~IsErrorText(Leg(s, 2).response)


AggregatorCalls == SelectSeq(pipe_calls, LAMBDA c : c.role = "aggregator")

\* C24: when the summarizing call fails after the agents' traces were
\* collected, the request is still answered as a completed run that carries
\* the agents' traces.
C24_AggregationFailureKeepsTraces ==
    (/\ pipe.pc = "responded"
     /\ \E k \in 1..Len(AggregatorCalls) : AggregatorCalls[k].failed)
       => /\ pipe.code = 200
          /\ "traces" \in DOMAIN pipe
          /\ Len(pipe.traces) = Len(AgentCalls)


\* C25: the aggregator is called at most once per run, after every agent call
\* of the run was made, and only when at least one agent call of the run
\* succeeded.
C25_AggregatorOnceAfterSuccess ==
    /\ Len(AggregatorCalls) <= 1
    /\ Len(AggregatorCalls) = 1 =>
          /\ pipe_calls[Len(pipe_calls)].role = "aggregator"
          /\ Len(AgentCalls) = ExpectedAgentCalls
          /\ \E k \in 1..Len(AgentCalls) : ~AgentCalls[k].failed


\* C26: in pairs-run every agent call is a step of one pair that leaves the
\* other pairs' messages alone; the call carries that pair's message list so
\* far, which for agent B ends with agent A's reply of the round and for agent
\* A in a later round with agent B's reply of the round before, and the reply
\* is appended to that pair's list only.
C26_PairLegsSequential ==
    [][(/\ PoolRunning
        /\ pipe_calls' # pipe_calls
        /\ pipe_calls'[Len(pipe_calls')].role = "agent")
          => \E k \in DOMAIN pipe.units :
                LET u == pipe.units[k]
                    c == pipe_calls'[Len(pipe_calls')]
                    n == Len(u.msg)
                IN /\ \A j \in DOMAIN pipe.units \ {k} : pipe'.units[j] = pipe.units[j]
                   /\ u.pc \in {"a", "b"}
                   /\ c.messages = u.msg
                   /\ c.model = IF u.pc = "a" THEN u.ai ELSE u.bi
                   /\ u.pc = "b" =>
                         u.msg[n - 1] = [role |-> "assistant", content |-> u.a_last]
                   /\ (u.pc = "a" /\ u.r > 0) =>
                         u.msg[n - 1] = [role |-> "assistant", content |-> u.b_last]
                   /\ (u.pc = "a" /\ u.r = 0) => n = 2
                   /\ ~c.failed =>
                         /\ Len(pipe'.units[k].msg) = n + 2
                         /\ SubSeq(pipe'.units[k].msg, 1, n) = u.msg
                         /\ pipe'.units[k].msg[n + 1]
                               = [role |-> "assistant", content |-> c.text]]_vars

C26_Witness ==
    /\ PoolRunning
    /\ Len(pipe.units) = 2
    /\ pipe.units[1].pc = "b" /\ pipe.units[2].pc = "b"
    /\ pipe.units[1].a_last # pipe.units[2].a_last


\* the pairs of the pool that were submitted and have not ended
Executing == { k \in DOMAIN pipe.units : ~UnitDone(pipe.units[k]) }

\* C27: pairs-run works with a bounded pool: the pairs running at the same
\* time are never more than min(10, pairs in the body), and at most 10 pairs
\* are submitted however many the body has.
C27_PoolIsBounded ==
    PoolRunning =>
        LET given == Len(pipe.data.pairs)
            cap == IF given < PoolCap THEN given ELSE PoolCap
        IN /\ pipe.max_workers = cap
           /\ Len(pipe.units) = cap
           /\ Cardinality(Executing) <= cap
           /\ \A k \in DOMAIN pipe.units :
                 <<pipe.units[k].ai, pipe.units[k].bi>> = pipe.data.pairs[k]

C27_Witness ==
    /\ PoolRunning
    /\ Len(pipe.data.pairs) > PoolCap
    /\ Len(pipe.units) = PoolCap
    /\ Cardinality(pipe.collected) = PoolCap


\* C28: in an expert panel session every agent is sent exactly the prompt the
\* session was started with: whatever the agents called before it returned, no
\* message holds anything but that prompt.
C28_PanelPromptUnmodified ==
    \A s \in PanelSessions : \A k \in 1..Len(calls[s]) :
        /\ calls[s][k].message = active_sessions[s].prompt
        /\ calls[s][k].agent = k
        /\ \A j \in 1..(k - 1) : ~Contains(calls[s][k].message, calls[s][j].text)

C28_Witness ==
    \E s \in PanelSessions :
        /\ Len(calls[s]) = 2 * NumPairs
        /\ calls[s][1].text = <<"r1">> /\ calls[s][2].text = <<"r2">>
        /\ calls[s][3].failed
        /\ calls[s][4].message = <<"X">>


\* the calls of the unit in hand that have returned and are not yet recorded
Unrecorded(s) ==
    CASE worker[s].pc \in {"p_call_b", "c_append"} -> 1
      [] worker[s].pc = "p_append" -> 2
      [] OTHER -> 0

\* C29: one outbound request is made per agent turn and none is repeated: the
\* requests a session's worker has made are one per recorded agent result plus
\* those of the unit in hand, so a chain session whose worker has ended has
\* made as many requests as it recorded results; in chain-run the requests to
\* agents are one per turn taken, a failed one being the last.
C29_OneCallPerTurn ==
    /\ \A s \in Sessions :
          /\ Len(calls[s]) = CallsPerUnit(s) * Len(Results(s)) + Unrecorded(s)
          /\ (s \in ChainSessions /\ At(s, "done")) => Len(calls[s]) = Len(Results(s))
    /\ (ChainRunning /\ pipe.pc = "chain_call")
          => Len(AgentCalls) = pipe.i /\ Len(pipe.traces) = pipe.i
    /\ ChainRunning
          => \A k \in 1..Len(AgentCalls) : AgentCalls[k].failed => k = Len(AgentCalls)

C29_Witness ==
    \E s \in ChainSessions :
        /\ At(s, "done")
        /\ Len(calls[s]) = 3 /\ Len(Results(s)) = 3
        /\ calls[s][1].failed /\ calls[s][2].failed /\ ~calls[s][3].failed


\* a stop was accepted for s while its status was still starting, that is
\* before the worker's first statement: no stop found the session running,
\* and the worker had not reached its end when the first stop came
StoppedBeforeStart(s) ==
    /\ stop_requested[s]
    /\ stop_results[s] = -1
    /\ worker[s].pc \notin {"p_finish_time", "c_finish_time", "done"}

\* C30: a stop accepted before the worker thread ran its first statement is
\* not lost: the worker of such a session makes no model call.
C30_EarlyStopIsKept ==
    \A s \in Sessions : StoppedBeforeStart(s) => calls[s] = << >>


\* the worker thread of s is alive and will not die of the TypeError of line 139
Alive(s) ==
    /\ s \in DOMAIN worker
    /\ worker[s].pc \notin {"done", "crashed"}
    /\ PyMin(worker[s].max_agents, PyInt(NumAgents)).k = "int"

\* the worker has not yet run its final status write (lines 127, 174)
BeforeFinish(s) == worker[s].pc \notin {"p_finish_time", "c_finish_time"}

Finished(s) == PyGet(active_sessions[s], "completed_at", None) # None

ProgressBounds(s) ==
    LET v == StatusView(s)
        position == IF s \in PanelSessions THEN v.current_pair ELSE v.current_agent
        total == IF s \in PanelSessions THEN PyInt(v.total_pairs) ELSE v.total_agents
    IN /\ 0 <= v.results_count
       /\ v.results_count <= position
       /\ ~NumLess(total, PyInt(position))
       /\ position - v.results_count <= 1

\* C32: in every reachable state of a chain session, 0 <= results_count <=
\* current_agent <= total_agents and current_agent - results_count <= 1, for
\* every requested max_agents, zero and negative values included; the same
\* bounds hold for results_count, current_pair and total_pairs of a panel.
C32_ProgressBounds == \A s \in Sessions : ProgressBounds(s)


\* the chain session s ran to its end without any stop request
RanToEnd(s) == s \in ChainSessions /\ At(s, "done") /\ ~stop_requested[s]

\* C33: a chain session that is never stopped ends, for max_agents >= 1, with
\* exactly min(max_agents, registry size) results, those of the first agents
\* of the registry in registry order, numbered 1..n, with sticky_context_used
\* false for the first only.
C33_UnstoppedChainIsFull ==
    \A s \in Sessions :
        (RanToEnd(s) /\ worker[s].max_agents.n >= 1) =>
            LET n == IF worker[s].max_agents.n < NumAgents
                     THEN worker[s].max_agents.n ELSE NumAgents
            IN /\ Len(Results(s)) = n
               /\ \A k \in 1..n :
                     /\ Results(s)[k].agent_number = k
                     /\ Results(s)[k].agent_name = RELAY_AGENTS[k].name
                     /\ Results(s)[k].sticky_context_used = (k > 1)

\* a request for more agents than the registry holds, run to its end
C33_Witness ==
    \E s \in Sessions :
        /\ RanToEnd(s)
        /\ worker[s].max_agents.n > NumAgents
        /\ Len(Results(s)) = NumAgents
        /\ ~Results(s)[1].sticky_context_used
        /\ Results(s)[NumAgents].sticky_context_used


Conferences == DOMAIN active_conferences

\* a continue request for the conference is being handled
InFlight(cid) ==
    \E h \in Handlers : handler[h].pc # "idle" /\ handler[h].cid = cid

\* the status agrees with the planned length: completed exactly when
\* current_round has reached rounds x number of participants
StatusMatchesRounds(cid) ==
    active_conferences[cid].status = "completed" <=> Due(active_conferences[cid])

\* no key of the conference that continue writes changes in the step
Untouched(cid) ==
    /\ active_conferences'[cid].messages = active_conferences[cid].messages
    /\ active_conferences'[cid].current_round = active_conferences[cid].current_round
    /\ active_conferences'[cid].status = active_conferences[cid].status

\* C34: a conference becomes completed exactly when current_round reaches
\* rounds x number of participants (looked at when no continue request is
\* being handled), and once its status is completed every continue request is
\* rejected and messages, current_round and status do not change any more.
C34_CompletedExactlyAtEnd ==
    /\ [](\A cid \in Conferences :
             /\ (~InFlight(cid) /\ active_conferences[cid].rounds.k = "int")
                   => StatusMatchesRounds(cid)
             /\ active_conferences[cid].status = "completed"
                   => \A data \in ContinueBodies :
                         continue_conference_check(cid, data).code = 400)
    /\ [][\A cid \in Conferences :
             active_conferences[cid].status = "completed" => Untouched(cid)]_vars


\* the messages continue appended: all but the moderator's opening
ParticipantMessages(cid) ==
    IF conf_hist[cid].opened
    THEN Tail(active_conferences[cid].messages)
    ELSE active_conferences[cid].messages

\* C35: every successful continue appends exactly one message and increases
\* current_round by exactly one, so the number of participant messages of a
\* conference equals current_round whenever no continue request for it is
\* half-way through, also when several continue requests for the same
\* conference were handled concurrently.
C35_MessagesEqualRound ==
    \A cid \in Conferences :
        ~InFlight(cid) =>
            Len(ParticipantMessages(cid)) = active_conferences[cid].current_round


\* every participant of the conference is a key of the registry
AllKnown(cid) ==
    \A i \in 1..Len(active_conferences[cid].participants) :
        active_conferences[cid].participants[i] \in DOMAIN CONFERENCE_AGENTS

\* how many of the conference's participant messages are by speaker p
Spoken(cid, p) ==
    Cardinality({ k \in 1..Len(ParticipantMessages(cid)) :
                     ParticipantMessages(cid)[k].speaker = p })

\* the k-th participant message is by participants[(k - 1) mod n]
RoundRobin(cid) ==
    LET participants == active_conferences[cid].participants
    IN \A k \in 1..Len(ParticipantMessages(cid)) :
          ParticipantMessages(cid)[k].speaker =
              participants[((k - 1) % Len(participants)) + 1]

\* C36: when no continue request names a participant, every participant is a
\* known agent and every model call succeeds, the speakers rotate round-robin,
\* and the conference is completed after exactly rounds x n continue
\* requests with each participant having spoken exactly `rounds` times.
C36_RoundRobinCompletes ==
    \A cid \in Conferences :
        (Plain(cid) /\ AllKnown(cid)) =>
            /\ RoundRobin(cid)
            /\ (active_conferences[cid].status = "completed" /\ ~InFlight(cid)) =>
                  LET conference == active_conferences[cid]
                  IN /\ conf_hist[cid].continues =
                            conference.rounds.n * Len(conference.participants)
                     /\ \A i \in 1..Len(conference.participants) :
                            Spoken(cid, conference.participants[i]) = conference.rounds.n


\* the step is a continue request refused by the checks of lines 170-189
\* (unknown conference, conference not active, invalid participant)
Refused(h, cid, data) ==
    /\ continue_begin(h, cid, data)
    /\ continue_conference_check(cid, data).code \in {404, 400}

\* the step is the end of a continue request whose provider call gave no 200
Unanswered(h) == continue_post(h) /\ handler'[h] = Idle

\* C37: a continue request that fails (unknown conference, conference not
\* active, invalid participant, or a non-success model response) appends no
\* message, does not advance current_round and does not change the status of
\* any conference.
C37_FailedContinueChangesNothing ==
    [][/\ \A h \in Handlers, cid \in AnyConferenceId, data \in ContinueBodies :
             Refused(h, cid, data) => \A c \in Conferences : Untouched(c)
       /\ \A h \in Handlers :
             Unanswered(h) => \A c \in Conferences : Untouched(c)]_vars

\* a conference whose rotation has come to a participant outside the
\* registry after a first message, and which has had a request fail while no
\* request named its speaker
C37_Witness ==
    \E cid \in Conferences :
        /\ conf_hist[cid].failed /\ ~conf_hist[cid].named
        /\ ~AllKnown(cid)
        /\ active_conferences[cid].status = "active"
        /\ active_conferences[cid].current_round = 1
        /\ Len(ParticipantMessages(cid)) = 1
        /\ ~InFlight(cid)


\* C38: synthesizing a conference never changes its status, messages or
\* current_round and is accepted in any conference status; when the synthesis
\* model call fails nothing is stored, so a synthesis stored before is kept,
\* and the conference with its messages stays in the store.
C38_SynthesisLeavesConference ==
    /\ [](\A cid \in Conferences : \A net \in ConferenceOutcomes :
             net.kind # "exception"
                => synthesize_conference_response(cid, net).code = 200)
    /\ [][\A cid \in AnyConferenceId, net \in ConferenceOutcomes :
             synthesize(cid, net) =>
                /\ \A c \in Conferences : c \in DOMAIN active_conferences' /\ Untouched(c)
                /\ net.kind # "ok" => UNCHANGED active_conferences]_vars

\* a completed conference with its messages and a stored synthesis
C38_Witness ==
    \E cid \in Conferences :
        /\ active_conferences[cid].status = "completed"
        /\ "synthesis" \in DOMAIN active_conferences[cid]
        /\ Len(ParticipantMessages(cid)) >= 2

=============================================================================
